---------------------------- MODULE Spec2Model ----------------------------
(*
  Model of AnalyserView (src/src/javascripts/3D/visualizer.js): the render-mode
  state machine, the scrolling frequency-history texture (a ring buffer of
  TEXTURE_HEIGHT rows addressed by the write cursor yoffset) and the values
  drawGL hands to the GL context in each frame.

  A texture row is written whole by texSubImage2D (x = 0, width =
  freqByteData.length, height = 1), so the content of a row, and of the byte
  array freqByteData, is represented by one sample value; 0 is the content of
  a freshly allocated (zero-filled) array or texture row.

  A float computed as a quotient a / b is represented by the pair <<a, b>>
  and compared by cross-multiplication.
*)
EXTENDS Integers, Sequences, FiniteSets

\* visualizer.js:4-7
ANALYSISTYPE_FREQUENCY == 0
ANALYSISTYPE_SONOGRAM == 1
ANALYSISTYPE_3D_SONOGRAM == 2
ANALYSISTYPE_WAVEFORM == 3

AnalysisTypes ==
  {ANALYSISTYPE_FREQUENCY, ANALYSISTYPE_SONOGRAM,
   ANALYSISTYPE_3D_SONOGRAM, ANALYSISTYPE_WAVEFORM}

\* this.TEXTURE_HEIGHT (256 in the source), scaled down for model checking.
TEXTURE_HEIGHT == 3

\* Largest sample value the analyser delivers (255 in the source).
MaxSample == 3

Samples == 0..MaxSample
Rows == 0..(TEXTURE_HEIGHT - 1)

VARIABLES
  has3DVisualizer,  \* this.has3DVisualizer
  analysisType,     \* this.analysisType
  yoffset,          \* this.yoffset, the write cursor
  freqByteData,     \* this.freqByteData: <<>> for 0 (not allocated), else <<content>>
  texture,          \* this.texture: <<>> for 0 (not allocated), else [Rows -> Samples]
  glCalls,          \* arguments of the GL calls of the most recent frame
  op,               \* the most recent operation with the state it started from
  history,          \* snapshots of the accumulating writes since the cursor was last 0 by reset
  nwrites,          \* their number, saturating at TEXTURE_HEIGHT + 2
  run,              \* cursor before each of the last consecutive accumulating frames
  mesh,             \* sonogram3DWidth/Height and what initGL built from them
  shaders,          \* this.frequencyShader .. this.sonogram3DShader: what loadFromURL returned
  matA,             \* elements of a Matrix4x4 instance, element k at position k + 1
  matR,             \* the last Matrix4x4 call on it: receiver before, result, product
  frequencyBinCount, \* this.analyser.frequencyBinCount; 0 while no analyser is set
  byteLength,       \* this.freqByteData.length
  textureWidth,     \* width given to texImage2D for this.texture
  textureId,        \* this.texture: the n-th texture created; 0 for none
  liveTextures,     \* textures created and not deleted
  currentProgram,   \* the GL context's current program
  raised,           \* the exception the last operation ended with, or "none"
  isRendering,      \* spec3D.isRendering
  pending,          \* draw_ callbacks handed to requestAnimationFrame, not yet run
  rowKind,          \* per texture row, the analyser call whose data it holds
  scene,            \* elements of model, view, projection and the last mvp
  player            \* the fields of the Player and its loads in flight

\* The state of the view drawn on by the frames.
viewVars ==
  <<has3DVisualizer, analysisType, yoffset, freqByteData, texture, glCalls,
    op, history, nwrites, run, frequencyBinCount, byteLength, textureWidth,
    textureId, liveTextures, currentProgram, raised>>

\* The render loop of spec3D.
loopVars == <<isRendering, pending>>

\* The state set up once by initGL.
glInitVars == <<mesh, shaders>>

\* A Matrix4x4 instance and the last call made on it.
matVars == <<matA, matR>>

\* State followed only by the specifications that are about it: the kind of
\* data in each row, the camera matrices of drawGL, and the Player.
sideVars == <<rowKind, scene, player>>

vars == <<viewVars, glInitVars, matVars, loopVars, sideVars>>

-----------------------------------------------------------------------------
\* Helpers

NoCalls == [texRow |-> -1, texData |-> -1, width |-> 0, shader |-> "none",
            yoffsetUniform |-> <<0, 1>>, draw |-> "none",
            vertexBuffer |-> "none", count |-> 0,
            vertexYOffset |-> <<0, 1>>, events |-> <<>>]

FracEq(a, b) == a[1] * b[2] = b[1] * a[2]
FracLeq(a, b) == a[1] * b[2] <= b[1] * a[2]

\* The last n elements of s (all of s when it is shorter).
LastN(s, n) == IF Len(s) <= n THEN s ELSE SubSeq(s, Len(s) - n + 1, Len(s))

Saturate(n, cap) == IF n >= cap THEN cap ELSE n

\* drawGL, lines 392-395 and 411-414: the two sonogram modes accumulate rows.
IsAccumulating(type) ==
  type = ANALYSISTYPE_SONOGRAM \/ type = ANALYSISTYPE_3D_SONOGRAM

\* Bug variant: the cursor is not reset to 0 in the instantaneous modes.
WriteRow_NoReset(type, y) == y

\* drawGL, lines 392-397: the row handed to texSubImage2D.
WriteRow(type, y) == IF ~IsAccumulating(type) THEN 0 ELSE y

\* Bug variants of the cursor advance: no wrap-around, a skipped row, and a
\* wrap one row early.
AdvanceOffset_NoWrap(y) == y + 1
AdvanceOffset_Skip(y) == (y + 2) % TEXTURE_HEIGHT
AdvanceOffset_WrapEarly(y) == (y + 1) % (TEXTURE_HEIGHT - 1)

\* drawGL, line 415.
AdvanceOffset(y) == (y + 1) % TEXTURE_HEIGHT

\* Bug variant: the whole texture is replaced, as by texImage2D, and only the
\* written row keeps data.
WrittenTexture_Cleared(tex, row, data) ==
  [r \in DOMAIN tex |-> IF r = row THEN data ELSE 0]

\* drawGL, lines 399-409: texSubImage2D replaces the one row at the cursor.
WrittenTexture(tex, row, data) == [tex EXCEPT ![row] = data]

\* drawGL, lines 411-417: the cursor after the row write.
NextYoffset(type, y) ==
  IF IsAccumulating(type) THEN AdvanceOffset(WriteRow(type, y))
  ELSE WriteRow(type, y)

\* Bug variant: the instantaneous modes pass the normalized cursor, 0.
FixedYOffset_Zero == <<0, TEXTURE_HEIGHT - 1>>

\* drawGL, line 446: 0.5 / (TEXTURE_HEIGHT - 1).
FixedYOffset == <<1, 2 * (TEXTURE_HEIGHT - 1)>>

\* Bug variant: the cursor is divided by the height instead of height - 1.
NormalizedYOffset_ByHeight(y) == <<y, TEXTURE_HEIGHT>>

\* drawGL, lines 458 and 473: yoffset / (TEXTURE_HEIGHT - 1).
NormalizedYOffset(y) == <<y, TEXTURE_HEIGHT - 1>>

\* Bug variant: every mode passes the fixed half-row offset.
YOffsetUniform_Fixed(type, y) == <<1, 2 * (TEXTURE_HEIGHT - 1)>>

\* drawGL, lines 432-475: the value of the yoffset uniform per mode.
YOffsetUniform(type, y) ==
  IF IsAccumulating(type) THEN NormalizedYOffset(y) ELSE FixedYOffset

\* drawGL, lines 436-439, 452, 464: the shader bound per mode.
ShaderFor(type) ==
  CASE type = ANALYSISTYPE_FREQUENCY -> "frequencyShader"
    [] type = ANALYSISTYPE_WAVEFORM -> "waveformShader"
    [] type = ANALYSISTYPE_SONOGRAM -> "sonogramShader"
    [] type = ANALYSISTYPE_3D_SONOGRAM -> "sonogram3DShader"

\* Bug variant: every mode draws the flat quad without indices.
DrawCallFor_AlwaysArrays(type) == "drawArrays"

\* drawGL, lines 551-560.
DrawCallFor(type) ==
  IF type = ANALYSISTYPE_3D_SONOGRAM THEN "drawElements" ELSE "drawArrays"

\* drawGL, lines 435, 451, 463: the vertex buffer bound per mode.
VertexBufferFor(type) ==
  IF type = ANALYSISTYPE_3D_SONOGRAM THEN "sonogram3DVBO" ELSE "vbo"

\* drawGL, lines 556 and 559: the number of vertices or indices drawn.
DrawCountFor(type, numIndices) ==
  IF type = ANALYSISTYPE_3D_SONOGRAM THEN numIndices ELSE 6

\* doFrequencyAnalysis, lines 349-365: the analyser call that fills
\* freqByteData.
SnapshotCallFor(type) ==
  IF type = ANALYSISTYPE_WAVEFORM
  THEN "getByteTimeDomainData"
  ELSE "getByteFrequencyData"

\* Bug variant: the draw call is made before the row is written.
FrameEvents_DrawFirst(type, bindRaises) ==
  <<SnapshotCallFor(type), DrawCallFor(type), "texSubImage2D", "bindBuffer",
    "bind">>

\* doFrequencyAnalysis and drawGL, lines 346-560: the calls of one frame on
\* the analyser and on the GL context, in program order, up to the draw
\* call. A shader field that holds no Shader raises at bind, and the frame
\* ends there.
FrameEvents(type, bindRaises) ==
  IF bindRaises
  THEN <<SnapshotCallFor(type), "texSubImage2D", "bindBuffer">>
  ELSE <<SnapshotCallFor(type), "texSubImage2D", "bindBuffer", "bind",
         DrawCallFor(type)>>

\* Bug variant: the offset is rounded up to the next grid step.
DiscretizedYOffset_Ceil(y, meshHeight) ==
  <<(y * (meshHeight - 1) + TEXTURE_HEIGHT - 2) \div (TEXTURE_HEIGHT - 1),
    meshHeight - 1>>

\* drawGL, lines 473-479: Math.floor(normalizedYOffset *
\* (sonogram3DHeight - 1)) / (sonogram3DHeight - 1), with normalizedYOffset
\* the fraction y / (TEXTURE_HEIGHT - 1).
DiscretizedYOffset(y, meshHeight) ==
  <<(NormalizedYOffset(y)[1] * (meshHeight - 1)) \div NormalizedYOffset(y)[2],
    meshHeight - 1>>

\* constructor, line 52: the default mode.
DefaultAnalysisType == ANALYSISTYPE_3D_SONOGRAM

\* Bug variant: the default mode is kept whatever the capability.
InitialAnalysisType_NoOverride(has3D, type) == type

\* initGL, lines 111-119: the default is overridden without the 3D capability.
InitialAnalysisType(has3D, type) ==
  IF ~has3D /\ type = ANALYSISTYPE_3D_SONOGRAM
  THEN ANALYSISTYPE_FREQUENCY
  ELSE type

\* Bug variants: the capability test is missing; an unsupported request
\* falls back to the frequency mode instead of being ignored.
ResolveAnalysisType_NoCheck(has3D, current, type) == type
ResolveAnalysisType_Redirect(has3D, current, type) ==
  IF ~has3D /\ type = ANALYSISTYPE_3D_SONOGRAM THEN ANALYSISTYPE_FREQUENCY ELSE type

\* setAnalysisType, lines 333-340: the mode after the call.
ResolveAnalysisType(has3D, current, type) ==
  IF ~has3D /\ type = ANALYSISTYPE_3D_SONOGRAM THEN current ELSE type


-----------------------------------------------------------------------------
\* Matrix4x4 (matrix4x4.js). The sixteen elements are kept row by row; the
\* arithmetic is exact integer arithmetic.

ElementIndexes == 1..16

\* get(row, col), lines 242-244, read column by column instead.
Get_ColumnMajor(e, row, col) == e[4 * col + row + 1]

\* get(row, col), lines 242-244.
Get(e, row, col) == e[4 * row + col + 1]

\* Bug variant: the last element written is 3 * 4 + 2.
LoadIdentity_Slip(e) ==
  LET cleared == [i \in ElementIndexes |-> 0] IN
  [cleared EXCEPT ![0 * 4 + 0 + 1] = 1, ![1 * 4 + 1 + 1] = 1,
                  ![2 * 4 + 2 + 1] = 1, ![3 * 4 + 2 + 1] = 1]

\* loadIdentity(), lines 467-476.
LoadIdentity(e) ==
  LET cleared == [i \in ElementIndexes |-> 0] IN
  [cleared EXCEPT ![0 * 4 + 0 + 1] = 1, ![1 * 4 + 1 + 1] = 1,
                  ![2 * 4 + 2 + 1] = 1, ![3 * 4 + 3 + 1] = 1]

\* Array(16), line 20: sixteen empty slots.
EmptyArray == [i \in ElementIndexes |-> "empty"]

\* new Matrix4x4(), lines 19-22.
NewMatrix == LoadIdentity(EmptyArray)

\* scale(sx, sy, sz), lines 24-41; element 1 * 4 + 0 is multiplied by sy
\* twice (lines 30-31).
Scale(e, sx, sy, sz) ==
  [i \in ElementIndexes |->
     IF i \in 1..4 THEN e[i] * sx
     ELSE IF i = 5 THEN (e[i] * sy) * sy
     ELSE IF i \in 6..8 THEN e[i] * sy
     ELSE IF i \in 9..12 THEN e[i] * sz
     ELSE e[i]]

\* translate(tx, ty, tz), lines 43-62.
Translate(e, tx, ty, tz) ==
  [i \in ElementIndexes |->
     IF i \in 13..16
     THEN LET col == i - 13 IN
          e[i] + (e[0 * 4 + col + 1] * tx + e[1 * 4 + col + 1] * ty
                  + e[2 * 4 + col + 1] * tz)
     ELSE e[i]]

\* multiply(other), lines 204-228: the four elements of row i of the product,
\* read from the receiver's and the argument's arrays.
ProductRow(this, elements, i) ==
  [j \in 0..3 |->
     this[i * 4 + 0 + 1] * elements[0 * 4 + j + 1]
     + this[i * 4 + 1 + 1] * elements[1 * 4 + j + 1]
     + this[i * 4 + 2 + 1] * elements[2 * 4 + j + 1]
     + this[i * 4 + 3 + 1] * elements[3 * 4 + j + 1]]

\* arr with the four elements of row i replaced by row.
WithRow(arr, i, row) ==
  [k \in ElementIndexes |->
     IF (k - 1) \div 4 = i THEN row[(k - 1) % 4] ELSE arr[k]]

\* Bug variant: the rows are written straight into the receiver's array, with
\* no temporary; an argument that is the receiver is read half-written.
RECURSIVE MultiplyRows_InPlace(_, _, _, _, _)
MultiplyRows_InPlace(i, arrays, a, b, tmp) ==
  IF i = 4 THEN arrays
  ELSE MultiplyRows_InPlace(
         i + 1,
         [arrays EXCEPT ![a] = WithRow(arrays[a], i,
                                       ProductRow(arrays[a], arrays[b], i))],
         a, b, tmp)

\* multiply(other), lines 202-231, on the element arrays of the instances:
\* arrays[a] is the receiver's, arrays[b] the argument's (a = b when the
\* argument is the receiver). The rows go into tmp, which becomes the
\* receiver's array when the loop is over.
RECURSIVE MultiplyRows(_, _, _, _, _)
MultiplyRows(i, arrays, a, b, tmp) ==
  IF i = 4 THEN [arrays EXCEPT ![a] = tmp]
  ELSE MultiplyRows(i + 1, arrays, a, b,
                    WithRow(tmp, i, ProductRow(arrays[a], arrays[b], i)))

\* a.multiply(b) on the element arrays: tmp starts as a new Matrix4x4.
MultiplyOn(arrays, a, b) == MultiplyRows(0, arrays, a, b, NewMatrix)

\* multiply(other), lines 201-232: the receiver's elements after the call,
\* for an argument that is another instance.
Multiply(this, elements) == MultiplyOn(<<this, elements>>, 1, 2)[1]

\* copy(), lines 234-240.
Copy(e) == [NewMatrix EXCEPT ![1] = e[1], ![2] = e[2], ![3] = e[3],
            ![4] = e[4], ![5] = e[5], ![6] = e[6], ![7] = e[7], ![8] = e[8],
            ![9] = e[9], ![10] = e[10], ![11] = e[11], ![12] = e[12],
            ![13] = e[13], ![14] = e[14], ![15] = e[15], ![16] = e[16]]

\* transpose(), lines 439-465: six swaps.
Transpose(e) ==
  [e EXCEPT ![0 * 4 + 1 + 1] = e[1 * 4 + 0 + 1], ![1 * 4 + 0 + 1] = e[0 * 4 + 1 + 1],
            ![0 * 4 + 2 + 1] = e[2 * 4 + 0 + 1], ![2 * 4 + 0 + 1] = e[0 * 4 + 2 + 1],
            ![0 * 4 + 3 + 1] = e[3 * 4 + 0 + 1], ![3 * 4 + 0 + 1] = e[0 * 4 + 3 + 1],
            ![1 * 4 + 2 + 1] = e[2 * 4 + 1 + 1], ![2 * 4 + 1 + 1] = e[1 * 4 + 2 + 1],
            ![1 * 4 + 3 + 1] = e[3 * 4 + 1 + 1], ![3 * 4 + 1 + 1] = e[1 * 4 + 3 + 1],
            ![2 * 4 + 3 + 1] = e[3 * 4 + 2 + 1], ![3 * 4 + 2 + 1] = e[2 * 4 + 3 + 1]]

\* 1.0 / x of line 302; exact when x is 1 or -1, the determinants of Inputs.
Reciprocal(x) == 1 \div x

\* invert(), lines 247-430: the receiver's elements after the call.
Invert(e) ==
  LET
      tmp0 == Get(e, 2, 2) * Get(e, 3, 3)
      tmp1 == Get(e, 3, 2) * Get(e, 2, 3)
      tmp2 == Get(e, 1, 2) * Get(e, 3, 3)
      tmp3 == Get(e, 3, 2) * Get(e, 1, 3)
      tmp4 == Get(e, 1, 2) * Get(e, 2, 3)
      tmp5 == Get(e, 2, 2) * Get(e, 1, 3)
      tmp6 == Get(e, 0, 2) * Get(e, 3, 3)
      tmp7 == Get(e, 3, 2) * Get(e, 0, 3)
      tmp8 == Get(e, 0, 2) * Get(e, 2, 3)
      tmp9 == Get(e, 2, 2) * Get(e, 0, 3)
      tmp10 == Get(e, 0, 2) * Get(e, 1, 3)
      tmp11 == Get(e, 1, 2) * Get(e, 0, 3)
      tmp12 == Get(e, 2, 0) * Get(e, 3, 1)
      tmp13 == Get(e, 3, 0) * Get(e, 2, 1)
      tmp14 == Get(e, 1, 0) * Get(e, 3, 1)
      tmp15 == Get(e, 3, 0) * Get(e, 1, 1)
      tmp16 == Get(e, 1, 0) * Get(e, 2, 1)
      tmp17 == Get(e, 2, 0) * Get(e, 1, 1)
      tmp18 == Get(e, 0, 0) * Get(e, 3, 1)
      tmp19 == Get(e, 3, 0) * Get(e, 0, 1)
      tmp20 == Get(e, 0, 0) * Get(e, 2, 1)
      tmp21 == Get(e, 2, 0) * Get(e, 0, 1)
      tmp22 == Get(e, 0, 0) * Get(e, 1, 1)
      tmp23 == Get(e, 1, 0) * Get(e, 0, 1)
      t0 == tmp0 * Get(e, 1, 1) + tmp3 * Get(e, 2, 1) + tmp4 * Get(e, 3, 1) -
          (tmp1 * Get(e, 1, 1) + tmp2 * Get(e, 2, 1) + tmp5 * Get(e, 3, 1))
      t1 == tmp1 * Get(e, 0, 1) + tmp6 * Get(e, 2, 1) + tmp9 * Get(e, 3, 1) -
          (tmp0 * Get(e, 0, 1) + tmp7 * Get(e, 2, 1) + tmp8 * Get(e, 3, 1))
      t2 == tmp2 * Get(e, 0, 1) + tmp7 * Get(e, 1, 1) + tmp10 * Get(e, 3, 1)
          - (tmp3 * Get(e, 0, 1) + tmp6 * Get(e, 1, 1) + tmp11 * Get(e, 3,
          1))
      t3 == tmp5 * Get(e, 0, 1) + tmp8 * Get(e, 1, 1) + tmp11 * Get(e, 2, 1)
          - (tmp4 * Get(e, 0, 1) + tmp9 * Get(e, 1, 1) + tmp10 * Get(e, 2,
          1))
      d == Reciprocal(Get(e, 0, 0) * t0 + Get(e, 1, 0) * t1 + Get(e, 2, 0) *
          t2 + Get(e, 3, 0) * t3)
      out00 == d * t0
      out01 == d * t1
      out02 == d * t2
      out03 == d * t3
      out10 == d * (tmp1 * Get(e, 1, 0) + tmp2 * Get(e, 2, 0) + tmp5 * Get(e,
          3, 0) - (tmp0 * Get(e, 1, 0) + tmp3 * Get(e, 2, 0) + tmp4 * Get(e,
          3, 0)))
      out11 == d * (tmp0 * Get(e, 0, 0) + tmp7 * Get(e, 2, 0) + tmp8 * Get(e,
          3, 0) - (tmp1 * Get(e, 0, 0) + tmp6 * Get(e, 2, 0) + tmp9 * Get(e,
          3, 0)))
      out12 == d * (tmp3 * Get(e, 0, 0) + tmp6 * Get(e, 1, 0) + tmp11 *
          Get(e, 3, 0) - (tmp2 * Get(e, 0, 0) + tmp7 * Get(e, 1, 0) + tmp10 *
          Get(e, 3, 0)))
      out13 == d * (tmp4 * Get(e, 0, 0) + tmp9 * Get(e, 1, 0) + tmp10 *
          Get(e, 2, 0) - (tmp5 * Get(e, 0, 0) + tmp8 * Get(e, 1, 0) + tmp11 *
          Get(e, 2, 0)))
      out20 == d * (tmp12 * Get(e, 1, 3) + tmp15 * Get(e, 2, 3) + tmp16 *
          Get(e, 3, 3) - (tmp13 * Get(e, 1, 3) + tmp14 * Get(e, 2, 3) + tmp17
          * Get(e, 3, 3)))
      out21 == d * (tmp13 * Get(e, 0, 3) + tmp18 * Get(e, 2, 3) + tmp21 *
          Get(e, 3, 3) - (tmp12 * Get(e, 0, 3) + tmp19 * Get(e, 2, 3) + tmp20
          * Get(e, 3, 3)))
      out22 == d * (tmp14 * Get(e, 0, 3) + tmp19 * Get(e, 1, 3) + tmp22 *
          Get(e, 3, 3) - (tmp15 * Get(e, 0, 3) + tmp18 * Get(e, 1, 3) + tmp23
          * Get(e, 3, 3)))
      out23 == d * (tmp17 * Get(e, 0, 3) + tmp20 * Get(e, 1, 3) + tmp23 *
          Get(e, 2, 3) - (tmp16 * Get(e, 0, 3) + tmp21 * Get(e, 1, 3) + tmp22
          * Get(e, 2, 3)))
      out30 == d * (tmp14 * Get(e, 2, 2) + tmp17 * Get(e, 3, 2) + tmp13 *
          Get(e, 1, 2) - (tmp16 * Get(e, 3, 2) + tmp12 * Get(e, 1, 2) + tmp15
          * Get(e, 2, 2)))
      out31 == d * (tmp20 * Get(e, 3, 2) + tmp12 * Get(e, 0, 2) + tmp19 *
          Get(e, 2, 2) - (tmp18 * Get(e, 2, 2) + tmp21 * Get(e, 3, 2) + tmp13
          * Get(e, 0, 2)))
      out32 == d * (tmp18 * Get(e, 1, 2) + tmp23 * Get(e, 3, 2) + tmp15 *
          Get(e, 0, 2) - (tmp22 * Get(e, 3, 2) + tmp14 * Get(e, 0, 2) + tmp19
          * Get(e, 1, 2)))
      out33 == d * (tmp22 * Get(e, 2, 2) + tmp16 * Get(e, 0, 2) + tmp21 *
          Get(e, 1, 2) - (tmp20 * Get(e, 1, 2) + tmp23 * Get(e, 2, 2) + tmp17
          * Get(e, 0, 2)))
  IN <<out00, out01, out02, out03, out10, out11, out12, out13,
       out20, out21, out22, out23, out30, out31, out32, out33>>

\* inverse(), lines 433-436: the receiver is copied and the copy inverted.
Inverse(e) == [receiver |-> e, result |-> Invert(Copy(e))]

\* Largest x offset applied to an input matrix.
MaxShift == 1

\* The matrices with ones on the diagonal, zeroes below it and 0 or 1 above.
UnitUppers ==
  LET Above == {i \in ElementIndexes : (i - 1) % 4 > (i - 1) \div 4} IN
  {[i \in ElementIndexes |->
      IF (i - 1) % 4 = (i - 1) \div 4 THEN 1
      ELSE IF i \in Above THEN f[i] ELSE 0] : f \in [Above -> {0, 1}]}

\* The matrices the calls are tried on: products of a lower and an upper
\* unit-triangular matrix, with the first row negated or not and the last row
\* shifted. Their determinant is 1 or -1.
Inputs ==
  {Translate(Scale(Multiply(Transpose(u), v), s, 1, 1), t, 0, 0) :
     u \in UnitUppers, v \in UnitUppers, s \in {-1, 1}, t \in 0..MaxShift}

NoMatrixCall == [op |-> "none", before |-> <<>>, result |-> <<>>, product |-> <<>>]

\* new Matrix4x4().
MatConstruct ==
  /\ matA' = NewMatrix
  /\ matR' = [op |-> "new", before |-> <<>>, result |-> <<>>, product |-> <<>>]
  /\ UNCHANGED <<viewVars, glInitVars, loopVars, sideVars>>

\* m.loadIdentity().
MatLoadIdentity ==
  /\ matA' = LoadIdentity(matA)
  /\ matR' = [op |-> "loadIdentity", before |-> matA, result |-> <<>>,
              product |-> <<>>]
  /\ UNCHANGED <<viewVars, glInitVars, loopVars, sideVars>>

\* m.inverse().multiply(m).
MatInverseMultiply ==
  LET inv == Inverse(matA) IN
  /\ matA' = inv.receiver
  /\ matR' = [op |-> "inverse", before |-> matA, result |-> inv.result,
              product |-> Multiply(inv.result, inv.receiver)]
  /\ UNCHANGED <<viewVars, glInitVars, loopVars, sideVars>>

-----------------------------------------------------------------------------
\* The heightfield mesh and the shaders, built by initGL.

\* The vertex ceiling of initGL, line 196 (65536 in the source), scaled down.
VERTEX_LIMIT == 16

\* Number of values an element of the Uint16Array of line 241 can hold
\* (65536 in the source), scaled down with VERTEX_LIMIT.
UINT16_RANGE == 16

\* Largest mesh width and height tried.
MaxDim == 6

MeshDims == 1..MaxDim

\* sonogram3DWidth and sonogram3DHeight of the constructor, lines 54-55: both
\* equal TEXTURE_HEIGHT (256) in the source.
DefaultMeshWidth == TEXTURE_HEIGHT
DefaultMeshHeight == TEXTURE_HEIGHT

ShaderNames ==
  {"frequencyShader", "waveformShader", "sonogramShader", "sonogram3DShader"}

\* What a shader field can hold: "unset" is the constructor's 0; "null" is
\* loadFromURL's null (no source text); "compileFailed" is a Shader whose
\* constructor returned before linking (program created, never linked);
\* "linkFailed" is a Shader whose program was deleted (program = null);
\* "linked" is a usable Shader. part_003 lines 62-70 and 88-132. The logging
\* function output called on a compile or link failure is defined outside
\* src and is taken to return.
LoadResults == {"null", "compileFailed", "linkFailed", "linked"}

\* Storing v in a Uint16Array element.
Uint16(v) == v % UINT16_RANGE

\* Bug variant: exactly VERTEX_LIMIT vertices are refused too.
TooManyVertices_OffByOne(n) == n >= VERTEX_LIMIT

\* initGL, line 196.
TooManyVertices(n) == n > VERTEX_LIMIT

\* initGL, lines 237-238.
NumIndices(w, h) == (w - 1) * (h - 1) * 6

\* Bug variant: the second triangle of a cell is wound the other way.
CellIndices_Rewound(z, x, w) ==
  <<z * w + x, z * w + x + 1, (z + 1) * w + x + 1,
    z * w + x, (z + 1) * w + x, (z + 1) * w + x + 1>>

\* initGL, lines 249-254: the six values written for the cell (x, z).
CellIndices(z, x, w) ==
  <<z * w + x, z * w + x + 1, (z + 1) * w + x + 1,
    z * w + x, (z + 1) * w + x + 1, (z + 1) * w + x>>

\* initGL, lines 246-256: the loops over z and x, appending at idx++.
RECURSIVE IndexLoop(_, _, _, _, _)
IndexLoop(z, x, w, h, written) ==
  IF z >= h - 1 THEN written
  ELSE IF x >= w - 1 THEN IndexLoop(z + 1, 0, w, h, written)
  ELSE IndexLoop(z, x + 1, w, h, written \o CellIndices(z, x, w))

\* initGL, lines 241-256: the Uint16Array of NumIndices zeroes with the
\* values of the loops stored in it.
MeshIndices(w, h) ==
  LET written == IndexLoop(0, 0, w, h, <<>>) IN
  [i \in 1..NumIndices(w, h) |->
     IF i <= Len(written) THEN Uint16(written[i]) ELSE 0]

\* The mesh fields after the constructor, before initGL.
NewMesh(w, h) ==
  [width |-> w, height |-> h, status |-> "new", buffers |-> {},
   indices |-> <<>>, sonogram3DNumIndices |-> 0]

\* initGL, lines 142-262: the quad buffer is created first; the vertex test
\* throws before any 3D buffer exists; otherwise both 3D buffers are created,
\* and line 239 keeps NumIndices - 6 * 600 as the count to draw.
BuiltMesh(w, h) ==
  IF TooManyVertices(w * h)
  THEN [width |-> w, height |-> h, status |-> "thrown", buffers |-> {"vbo"},
        indices |-> <<>>, sonogram3DNumIndices |-> 0]
  ELSE [width |-> w, height |-> h, status |-> "built",
        buffers |-> {"vbo", "sonogram3DVBO", "sonogram3DIBO"},
        indices |-> MeshIndices(w, h),
        sonogram3DNumIndices |-> NumIndices(w, h) - 6 * 600]

\* The shader fields after the constructor, lines 63-66.
NoShaders == [n \in ShaderNames |-> "unset"]

\* initGL, lines 265-288: three shaders are always loaded, the 3D one only
\* with the capability.
LoadedShaders(has3D, results) ==
  [n \in ShaderNames |->
     IF n = "sonogram3DShader" /\ ~has3D THEN "unset" ELSE results[n]]

AllLinked == [n \in ShaderNames |-> "linked"]

\* The current program after the loads of initGL: the Shader constructor
\* calls useProgram right after linkProgram (part_003 lines 106-107), which
\* takes effect only for a program that linked; the loads run in the order
\* frequency, waveform, sonogram, sonogram3D.
ProgramAfterLoads(loaded) ==
  IF loaded["sonogram3DShader"] = "linked" THEN "sonogram3DShader"
  ELSE IF loaded["sonogramShader"] = "linked" THEN "sonogramShader"
  ELSE IF loaded["waveformShader"] = "linked" THEN "waveformShader"
  ELSE IF loaded["frequencyShader"] = "linked" THEN "frequencyShader"
  ELSE "none"

\* currentShader.bind() of drawGL on a field holding 0 or null: there is no
\* Shader object to call bind on, and a TypeError leaves drawGL.
BindRaises(status) == status \in {"unset", "null"}

\* Shader.prototype.bind, part_003 lines 140-142: gl.useProgram(this.program).
\* A deleted program (this.program = null) unsets the current program; a
\* program that was never linked is refused by GL and the current one stays.
ProgramAfterBind(status, name, current) ==
  CASE status = "linked" -> name
    [] status = "linkFailed" -> "none"
    [] OTHER -> current

-----------------------------------------------------------------------------
\* The camera matrices of drawGL. Angles are whole quarter turns, for which
\* sine and cosine are integers; lengths handed to frustum are fractions
\* <<numerator, denominator>> with a positive denominator.

\* Math.sin(angle * Math.PI / 180) and Math.cos(angle * Math.PI / 180),
\* matrix4x4.js lines 66-67, for an angle that is a multiple of 90 degrees.
SinDeg(angle) ==
  LET q == (angle \div 90) % 4 IN
  CASE q = 0 -> 0 [] q = 1 -> 1 [] q = 2 -> 0 [] q = 3 -> -1

CosDeg(angle) ==
  LET q == (angle \div 90) % 4 IN
  CASE q = 0 -> 1 [] q = 1 -> 0 [] q = 2 -> -1 [] q = 3 -> 0

\* Math.sqrt, line 65, for a perfect square.
Sqrt(n) == CHOOSE m \in 0..n : m * m = n

\* The sixteen elements of an array, one by one.
Stored(e) ==
  <<e[1], e[2], e[3], e[4], e[5], e[6], e[7], e[8], e[9], e[10], e[11], e[12],
    e[13], e[14], e[15], e[16]>>

\* rotate(angle, x, y, z), lines 64-124: the rotation matrix is multiplied
\* by the receiver and its elements become the receiver's.
Rotate(e, angle, x, y, z) ==
  LET mag == Sqrt(x * x + y * y + z * z)
      sinAngle == SinDeg(angle)
      cosAngle == CosDeg(angle)
  IN
  IF mag > 0
  THEN LET xn == x \div mag
           yn == y \div mag
           zn == z \div mag
           xx == xn * xn
           yy == yn * yn
           zz == zn * zn
           xy == xn * yn
           yz == yn * zn
           zx == zn * xn
           xs == xn * sinAngle
           ys == yn * sinAngle
           zs == zn * sinAngle
           oneMinusCos == 1 - cosAngle
           rotMat ==
             [NewMatrix EXCEPT
                ![0 * 4 + 0 + 1] = oneMinusCos * xx + cosAngle,
                ![0 * 4 + 1 + 1] = oneMinusCos * xy - zs,
                ![0 * 4 + 2 + 1] = oneMinusCos * zx + ys,
                ![0 * 4 + 3 + 1] = 0,
                ![1 * 4 + 0 + 1] = oneMinusCos * xy + zs,
                ![1 * 4 + 1 + 1] = oneMinusCos * yy + cosAngle,
                ![1 * 4 + 2 + 1] = oneMinusCos * yz - xs,
                ![1 * 4 + 3 + 1] = 0,
                ![2 * 4 + 0 + 1] = oneMinusCos * zx - ys,
                ![2 * 4 + 1 + 1] = oneMinusCos * yz + xs,
                ![2 * 4 + 2 + 1] = oneMinusCos * zz + cosAngle,
                ![2 * 4 + 3 + 1] = 0,
                ![3 * 4 + 0 + 1] = 0,
                ![3 * 4 + 1 + 1] = 0,
                ![3 * 4 + 2 + 1] = 0,
                ![3 * 4 + 3 + 1] = 1]
       IN Stored(Multiply(rotMat, e))
  ELSE e

FracNeg(a) == <<-a[1], a[2]>>
FracAdd(a, b) == <<a[1] * b[2] + b[1] * a[2], a[2] * b[2]>>
FracSub(a, b) == FracAdd(a, FracNeg(b))
FracMul(a, b) == <<a[1] * b[1], a[2] * b[2]>>

\* The number a fraction with a positive numerator or denominator stands
\* for, when it is a whole number.
FracDiv(a, b) == (a[1] * b[2]) \div (a[2] * b[1])

\* frustum(left, right, bottom, top, nearZ, farZ), lines 126-168.
Frustum(e, left, right, bottom, top, nearZ, farZ) ==
  LET deltaX == FracSub(right, left)
      deltaY == FracSub(top, bottom)
      deltaZ == farZ - nearZ
  IN
  IF nearZ <= 0 \/ farZ <= 0 \/ deltaX[1] <= 0 \/ deltaY[1] <= 0 \/ deltaZ <= 0
  THEN e
  ELSE LET frust ==
             [NewMatrix EXCEPT
                ![0 * 4 + 0 + 1] = FracDiv(<<2 * nearZ, 1>>, deltaX),
                ![0 * 4 + 1 + 1] = 0,
                ![0 * 4 + 2 + 1] = 0,
                ![0 * 4 + 3 + 1] = 0,
                ![1 * 4 + 1 + 1] = FracDiv(<<2 * nearZ, 1>>, deltaY),
                ![1 * 4 + 0 + 1] = 0,
                ![1 * 4 + 2 + 1] = 0,
                ![1 * 4 + 3 + 1] = 0,
                ![2 * 4 + 0 + 1] = FracDiv(FracAdd(right, left), deltaX),
                ![2 * 4 + 1 + 1] = FracDiv(FracAdd(top, bottom), deltaY),
                ![2 * 4 + 2 + 1] = (-(nearZ + farZ)) \div deltaZ,
                ![2 * 4 + 3 + 1] = -1,
                ![3 * 4 + 2 + 1] = (-2 * nearZ * farZ) \div deltaZ,
                ![3 * 4 + 0 + 1] = 0,
                ![3 * 4 + 1 + 1] = 0,
                ![3 * 4 + 3 + 1] = 0]
       IN Stored(Multiply(frust, e))

\* Math.tan(fovy / 360 * Math.PI), line 171, for a right-angle field of view.
TanHalf(fovy) == CASE fovy = 90 -> 1

\* perspective(fovy, aspect, nearZ, farZ), lines 170-175; aspect is a
\* fraction.
Perspective(e, fovy, aspect, nearZ, farZ) ==
  LET frustumH == <<TanHalf(fovy) * nearZ, 1>>
      frustumW == FracMul(frustumH, aspect)
  IN Frustum(e, FracNeg(frustumW), frustumW, FracNeg(frustumH), frustumH,
             nearZ, farZ)

\* drawGL, lines 489-494: perspective(55, aspect, 1, 100). A field of view
\* of 90 degrees and a far plane at 3 stand for 55 and 100, so that every
\* element of the projection matrix is a whole number.
Fovy == 90
NearZ == 1
FarZ == 3

\* Largest canvas height tried.
MaxCanvas == 2

\* canvas.width and canvas.height: heights from 1, widths 0 (a collapsed
\* canvas) and 1.
Canvases == {<<w, h>> : w \in 0..1, h \in 1..MaxCanvas}

\* The cameraController fields read by drawGL: the camera set up by initGL,
\* lines 124-132, and others the mouse handlers can leave.
InitialCamera ==
  [xRot |-> -180, yRot |-> 270, zRot |-> 90, xT |-> 0, yT |-> -2, zT |-> -2]

Cameras ==
  {[xRot |-> xr, yRot |-> yr, zRot |-> zr, xT |-> t[1], yT |-> t[2],
    zT |-> t[3]] :
     xr \in {-180, 90}, yr \in {0, 270}, zr \in {0, 90},
     t \in {<<0, -2, -2>>, <<1, 2, 3>>}}

\* Bug variant: the model matrix is not reset and accumulates the rotations
\* of earlier frames.
ModelTransform_NoReset(e, cam) ==
  Stored(Translate(
    Rotate(Rotate(Rotate(e, cam.xRot, 1, 0, 0), cam.yRot, 0, 1, 0),
           cam.zRot, 0, 0, 1),
    cam.xT, cam.yT, cam.zT))

\* drawGL, lines 499-507: the calls on model.
ModelTransform(e, cam) ==
  Stored(Translate(
    Rotate(Rotate(Rotate(LoadIdentity(e), cam.xRot, 1, 0, 0),
                  cam.yRot, 0, 1, 0),
           cam.zRot, 0, 0, 1),
    cam.xT, cam.yT, cam.zT))

\* Bug variant: the product is taken in the order projection, view, model.
WorldViewProjection_Reversed(model, view, projection) ==
  Stored(Multiply(Stored(Multiply(Stored(Multiply(NewMatrix, projection)),
                                 view)),
                  model))

\* drawGL, lines 510-513: mvp starts as a new matrix and is multiplied by
\* model, view and projection in turn.
WorldViewProjection(model, view, projection) ==
  Stored(Multiply(Stored(Multiply(Stored(Multiply(NewMatrix, model)), view)),
                  projection))

\* drawGL, lines 487-518: the matrices after the Sonogram3D case of a frame
\* that reads the camera cam and a canvas of canvas[1] by canvas[2].
ComposeScene(s, cam, canvas) ==
  LET projection == Stored(Perspective(LoadIdentity(s.projection), Fovy,
                                       <<canvas[1], canvas[2]>>, NearZ, FarZ))
      view == Stored(Translate(LoadIdentity(s.view), 0, 0, -9))
      model == ModelTransform(s.model, cam)
  IN [model |-> model, view |-> view, projection |-> projection,
      mvp |-> WorldViewProjection(model, view, projection),
      camera |-> cam, canvas |-> canvas]

\* No row of the texture has been written by a frame.
NoKinds == [r \in Rows |-> "none"]

\* initGL, lines 93-95: model, view and projection are new matrices; no
\* matrix has been handed to the shader.
NewScene ==
  [model |-> NewMatrix, view |-> NewMatrix, projection |-> NewMatrix,
   mvp |-> <<>>, camera |-> InitialCamera, canvas |-> <<0, 0>>]

\* Player, lines 28-34: no source, no microphone input, no buffer loaded,
\* loop not set; nothing is in flight, no source node was started.
NewPlayer ==
  [source |-> 0, input |-> FALSE, buffers |-> {}, loop |-> FALSE,
   playTimer |-> 0, timers |-> {}, loading |-> <<>>, streams |-> 0,
   playing |-> {}, created |-> 0, stopped |-> FALSE]

\* State after the constructor's assignments, lines 52-72, just before it
\* calls initGL, for a mesh of w by h vertices.
InitBeforeGL ==
  /\ has3DVisualizer = FALSE
  /\ analysisType = DefaultAnalysisType
  /\ yoffset = 0
  /\ freqByteData = <<>>
  /\ texture = <<>>
  /\ glCalls = NoCalls
  /\ op = [name |-> "new", type |-> -1, yoffset |-> 0, analysisType |-> -1]
  /\ history = <<>>
  /\ nwrites = 0
  /\ run = <<>>
  /\ \E w, h \in MeshDims : mesh = NewMesh(w, h)
  /\ shaders = NoShaders
  /\ matA = NewMatrix
  /\ matR = NoMatrixCall
  /\ frequencyBinCount = 0
  /\ byteLength = 0
  /\ textureWidth = 0
  /\ textureId = 0
  /\ liveTextures = {}
  /\ currentProgram = "none"
  /\ raised = "none"
  /\ isRendering = FALSE
  /\ pending = 0
  /\ rowKind = NoKinds
  /\ scene = NewScene
  /\ player = NewPlayer

\* initGL, lines 92-291, for a context whose vertex texture units decide
\* has3D and whose shader loads end as results. The vertex test throws out of
\* initGL after the capability fallback and before the shaders are loaded.
InitGL(has3D, results) ==
  LET built == BuiltMesh(mesh.width, mesh.height) IN
  /\ mesh.status = "new"
  /\ has3DVisualizer' = has3D
  /\ analysisType' = InitialAnalysisType(has3D, analysisType)
  /\ mesh' = built
  /\ shaders' = IF built.status = "built"
                THEN LoadedShaders(has3D, results) ELSE shaders
  /\ op' = [name |-> "constructor", type |-> -1, yoffset |-> yoffset,
            analysisType |-> analysisType]
  /\ currentProgram' = IF built.status = "built"
                       THEN ProgramAfterLoads(LoadedShaders(has3D, results))
                       ELSE currentProgram
  /\ raised' = IF built.status = "built" THEN "none" ELSE "thrown"
  /\ UNCHANGED <<yoffset, freqByteData, texture, glCalls, history, nwrites, run,
                 frequencyBinCount, byteLength, textureWidth, textureId,
                 liveTextures>>
  /\ UNCHANGED <<matVars, loopVars, sideVars>>

NextGL ==
  \E has3D \in BOOLEAN, results \in [ShaderNames -> LoadResults] :
    InitGL(has3D, results)

SpecGL == InitBeforeGL /\ [][NextGL]_vars

-----------------------------------------------------------------------------
\* A Matrix4x4 instance holding one of Inputs, with no view constructed.

InitMatrix ==
  /\ has3DVisualizer = FALSE
  /\ analysisType = DefaultAnalysisType
  /\ yoffset = 0
  /\ freqByteData = <<>>
  /\ texture = <<>>
  /\ glCalls = NoCalls
  /\ op = [name |-> "new", type |-> -1, yoffset |-> 0, analysisType |-> -1]
  /\ history = <<>>
  /\ nwrites = 0
  /\ run = <<>>
  /\ mesh = NewMesh(DefaultMeshWidth, DefaultMeshHeight)
  /\ shaders = NoShaders
  /\ matA \in Inputs
  /\ matR = NoMatrixCall
  /\ frequencyBinCount = 0
  /\ byteLength = 0
  /\ textureWidth = 0
  /\ textureId = 0
  /\ liveTextures = {}
  /\ currentProgram = "none"
  /\ raised = "none"
  /\ isRendering = FALSE
  /\ pending = 0
  /\ rowKind = NoKinds
  /\ scene = NewScene
  /\ player = NewPlayer

NextMatrix ==
  \/ MatConstruct
  \/ MatLoadIdentity
  \/ MatInverseMultiply

SpecMatrix == InitMatrix /\ [][NextMatrix]_vars

-----------------------------------------------------------------------------
\* One multiply call on an instance holding one of Inputs.

\* The arguments tried: a translation, a transposed translation and a
\* mirrored translation.
Operands ==
  {Translate(NewMatrix, 1, 2, 3),
   Transpose(Translate(NewMatrix, 3, 1, 2)),
   Scale(Translate(NewMatrix, 2, 0, 1), -1, 1, 1)}

\* a.multiply(b) for another instance b: matR keeps a before the call, b
\* before the call (product) and b after the call (result).
MatMultiply(b) ==
  LET after == MultiplyOn(<<matA, b>>, 1, 2) IN
  /\ matA' = after[1]
  /\ matR' = [op |-> "multiply", before |-> matA, result |-> after[2],
              product |-> b]
  /\ UNCHANGED <<viewVars, glInitVars, loopVars, sideVars>>

\* a.multiply(a): matR keeps a before the call and what
\* a.multiply(a.copy()) gives from the same values (result).
MatMultiplySelf ==
  /\ matA' = MultiplyOn(<<matA>>, 1, 1)[1]
  /\ matR' = [op |-> "multiplySelf", before |-> matA,
              result |-> MultiplyOn(<<matA, Copy(matA)>>, 1, 2)[1],
              product |-> <<>>]
  /\ UNCHANGED <<viewVars, glInitVars, loopVars, sideVars>>

NextMultiply ==
  \/ \E b \in Operands : matR.op = "none" /\ MatMultiply(b)
  \/ matR.op = "none" /\ MatMultiplySelf

SpecMultiply == InitMatrix /\ [][NextMultiply]_vars

-----------------------------------------------------------------------------
\* The analyser, the snapshot buffer and the texture.

\* analyser.frequencyBinCount is half of fftSize, which the Player sets to
\* 1024 on mobile and 2048 otherwise (player.js line 9).
FrequencyBinCount(isMobile) == (IF isMobile THEN 1024 ELSE 2048) \div 2

BinCounts == {FrequencyBinCount(TRUE), FrequencyBinCount(FALSE)}

\* Largest number of textures created in a run.
MaxTextures == 3

\* Bug variant: every call allocates.
NeedsAllocation_Always(data, length, bins) == TRUE

\* initByteBuffer, lines 297-300.
NeedsAllocation(data, length, bins) == data = <<>> \/ length # bins

\* Bug variant: the previous texture is not deleted.
TexturesAfterDelete_Leak(live, id) == live

\* initByteBuffer, lines 305-308: the previous texture, if any, is deleted.
TexturesAfterDelete(live, id) == IF id # 0 THEN live \ {id} ELSE live

-----------------------------------------------------------------------------
\* State after new AnalyserView(canvas) and setAnalyserNode(analyserNode),
\* spec3D.init_ lines 120-124, with every shader loaded and linked.

Init ==
  /\ has3DVisualizer \in BOOLEAN
  /\ analysisType = InitialAnalysisType(has3DVisualizer, DefaultAnalysisType)
  /\ yoffset = 0
  /\ freqByteData = <<>>
  /\ texture = <<>>
  /\ glCalls = NoCalls
  /\ op = [name |-> "constructor", type |-> -1, yoffset |-> 0, analysisType |-> -1]
  /\ history = <<>>
  /\ nwrites = 0
  /\ run = <<>>
  /\ mesh = BuiltMesh(DefaultMeshWidth, DefaultMeshHeight)
  /\ shaders = LoadedShaders(has3DVisualizer, AllLinked)
  /\ matA = NewMatrix
  /\ matR = NoMatrixCall
  /\ frequencyBinCount = FrequencyBinCount(FALSE)
  /\ byteLength = 0
  /\ textureWidth = 0
  /\ textureId = 0
  /\ liveTextures = {}
  /\ currentProgram = ProgramAfterLoads(shaders)
  /\ raised = "none"
  /\ isRendering = FALSE
  /\ pending = 0
  /\ rowKind = NoKinds
  /\ scene = NewScene
  /\ player = NewPlayer

\* setAnalyserNode(analyser), lines 567-569, for an analyser of bins bins.
SetAnalyserNode(bins) ==
  /\ frequencyBinCount' = bins
  /\ raised' = "none"
  /\ op' = [name |-> "setAnalyserNode", type |-> -1, yoffset |-> yoffset,
            analysisType |-> analysisType]
  /\ UNCHANGED <<has3DVisualizer, analysisType, yoffset, freqByteData, texture,
                 glCalls, history, nwrites, run, byteLength, textureWidth,
                 textureId, liveTextures, currentProgram>>
  /\ UNCHANGED <<glInitVars, matVars, loopVars, sideVars>>

\* initByteBuffer, lines 293-331. Without an analyser the read of
\* this.analyser.frequencyBinCount raises before anything is assigned. A new
\* buffer and a new zero-filled texture replace the old ones when the test of
\* lines 297-300 holds; the cursor is not touched.
InitByteBuffer ==
  /\ op' = [name |-> "initByteBuffer", type |-> -1, yoffset |-> yoffset,
            analysisType |-> analysisType]
  /\ IF frequencyBinCount = 0
     THEN /\ raised' = "TypeError"
          /\ UNCHANGED <<freqByteData, texture, byteLength, textureWidth,
                         textureId, liveTextures, history, nwrites, run>>
     ELSE /\ raised' = "none"
          /\ IF NeedsAllocation(freqByteData, byteLength, frequencyBinCount)
             THEN /\ freqByteData' = <<0>>
                  /\ byteLength' = frequencyBinCount
                  /\ textureId' = textureId + 1
                  /\ liveTextures' =
                       TexturesAfterDelete(liveTextures, textureId)
                         \cup {textureId + 1}
                  /\ texture' = [r \in Rows |-> 0]
                  /\ textureWidth' = frequencyBinCount
                  /\ history' = <<>>
                  /\ nwrites' = 0
                  /\ run' = <<>>
             ELSE UNCHANGED <<freqByteData, texture, byteLength, textureWidth,
                              textureId, liveTextures, history, nwrites, run>>
  /\ UNCHANGED <<has3DVisualizer, analysisType, yoffset, glCalls,
                 frequencyBinCount, currentProgram>>
  /\ UNCHANGED <<glInitVars, matVars, loopVars, sideVars>>

\* setAnalysisType(type), lines 333-340.
SetAnalysisType(type) ==
  /\ analysisType' = ResolveAnalysisType(has3DVisualizer, analysisType, type)
  /\ op' = [name |-> "setAnalysisType", type |-> type, yoffset |-> yoffset,
            analysisType |-> analysisType]
  /\ run' = IF analysisType' = analysisType THEN run ELSE <<>>
  /\ raised' = "none"
  /\ UNCHANGED <<has3DVisualizer, yoffset, freqByteData, texture, glCalls,
                 history, nwrites, frequencyBinCount, byteLength, textureWidth,
                 textureId, liveTextures, currentProgram>>
  /\ UNCHANGED <<glInitVars, matVars, loopVars, sideVars>>

\* doFrequencyAnalysis, lines 346-368, with drawGL, lines 370-565: what one
\* frame does to the view. data is what the analyser copies into
\* freqByteData. Without an analyser or without a buffer the call raises
\* before drawGL. In drawGL the row is written and the cursor advanced before
\* the shader is bound; a shader field that holds no Shader raises there; a
\* Shader whose program did not compile or link has no uniform locations, so
\* the uniform calls are dropped, but the draw call is still made.
Frame(data) ==
  LET type == analysisType
      row == WriteRow(type, yoffset)
      next == NextYoffset(type, yoffset)
      status == shaders[ShaderFor(type)]
  IN
  /\ op' = [name |-> "frame", type |-> type, yoffset |-> yoffset,
            analysisType |-> analysisType]
  /\ IF frequencyBinCount = 0 \/ freqByteData = <<>>
     THEN /\ raised' = "TypeError"
          /\ glCalls' = NoCalls
          /\ UNCHANGED <<freqByteData, texture, yoffset, currentProgram,
                         history, nwrites, run>>
     ELSE /\ freqByteData' = <<data>>
          /\ texture' = WrittenTexture(texture, row, data)
          /\ yoffset' = next
          /\ glCalls' =
               [texRow |-> row, texData |-> data, width |-> byteLength,
                shader |-> IF BindRaises(status) THEN "none" ELSE ShaderFor(type),
                yoffsetUniform |-> IF status = "linked"
                                   THEN YOffsetUniform(type, next)
                                   ELSE NoCalls.yoffsetUniform,
                draw |-> IF BindRaises(status) THEN "none" ELSE DrawCallFor(type),
                vertexBuffer |-> VertexBufferFor(type),
                count |-> IF BindRaises(status) THEN 0
                          ELSE DrawCountFor(type, mesh.sonogram3DNumIndices),
                vertexYOffset |->
                  IF status = "linked" /\ type = ANALYSISTYPE_3D_SONOGRAM
                  THEN DiscretizedYOffset(next, mesh.height)
                  ELSE NoCalls.vertexYOffset,
                events |-> FrameEvents(type, BindRaises(status))]
          /\ currentProgram' =
               ProgramAfterBind(status, ShaderFor(type), currentProgram)
          /\ raised' = IF BindRaises(status) THEN "TypeError" ELSE "none"
          /\ IF IsAccumulating(type)
             THEN /\ history' = LastN(Append(history, data), TEXTURE_HEIGHT + 1)
                  /\ nwrites' = Saturate(nwrites + 1, TEXTURE_HEIGHT + 2)
                  /\ run' = LastN(Append(run, yoffset), TEXTURE_HEIGHT)
             ELSE /\ history' = <<>>
                  /\ nwrites' = 0
                  /\ run' = <<>>
  /\ UNCHANGED <<has3DVisualizer, analysisType, frequencyBinCount, byteLength,
                 textureWidth, textureId, liveTextures>>
  /\ UNCHANGED <<glInitVars, matVars>>

\* doFrequencyAnalysis called directly.
DoFrequencyAnalysis(data) ==
  /\ Frame(data)
  /\ UNCHANGED <<loopVars, sideVars>>

\* The view as spec3D drives it: init_ calls initByteBuffer once, then frames
\* run from draw_.
Next ==
  \/ InitByteBuffer
  \/ \E type \in AnalysisTypes : SetAnalysisType(type)
  \/ \E data \in Samples : freqByteData # <<>> /\ DoFrequencyAnalysis(data)

Spec == Init /\ [][Next]_vars

-----------------------------------------------------------------------------
\* The view as any caller may drive it: no analyser at first, analysers of
\* either bin count set at any time, frames at any time.

InitAlloc ==
  /\ has3DVisualizer \in BOOLEAN
  /\ analysisType = InitialAnalysisType(has3DVisualizer, DefaultAnalysisType)
  /\ yoffset = 0
  /\ freqByteData = <<>>
  /\ texture = <<>>
  /\ glCalls = NoCalls
  /\ op = [name |-> "constructor", type |-> -1, yoffset |-> 0, analysisType |-> -1]
  /\ history = <<>>
  /\ nwrites = 0
  /\ run = <<>>
  /\ mesh = BuiltMesh(DefaultMeshWidth, DefaultMeshHeight)
  /\ shaders = LoadedShaders(has3DVisualizer, AllLinked)
  /\ matA = NewMatrix
  /\ matR = NoMatrixCall
  /\ frequencyBinCount = 0
  /\ byteLength = 0
  /\ textureWidth = 0
  /\ textureId = 0
  /\ liveTextures = {}
  /\ currentProgram = ProgramAfterLoads(shaders)
  /\ raised = "none"
  /\ isRendering = FALSE
  /\ pending = 0
  /\ rowKind = NoKinds
  /\ scene = NewScene
  /\ player = NewPlayer

NextAlloc ==
  \/ \E bins \in BinCounts : textureId < MaxTextures /\ SetAnalyserNode(bins)
  \/ InitByteBuffer
  \/ \E type \in AnalysisTypes : SetAnalysisType(type)
  \/ DoFrequencyAnalysis(MaxSample)

SpecAlloc == InitAlloc /\ [][NextAlloc]_vars

-----------------------------------------------------------------------------
\* The render loop of spec3D (spectrogram.js), after init_, for any outcome
\* of the shader loads.

\* Largest number of draw_ callbacks waiting at once.
MaxPending == 2

\* The outcomes of the shader loads tried: any set of shaders failing, all
\* in the same way.
LoadOutcomes ==
  {[n \in ShaderNames |-> IF n \in failed THEN how ELSE "linked"] :
     failed \in SUBSET ShaderNames, how \in LoadResults}

InitLoop ==
  /\ has3DVisualizer \in BOOLEAN
  /\ analysisType = InitialAnalysisType(has3DVisualizer, DefaultAnalysisType)
  /\ yoffset = 0
  /\ freqByteData = <<0>>
  /\ texture = [r \in Rows |-> 0]
  /\ glCalls = NoCalls
  /\ op = [name |-> "initByteBuffer", type |-> -1, yoffset |-> 0,
           analysisType |-> analysisType]
  /\ history = <<>>
  /\ nwrites = 0
  /\ run = <<>>
  /\ mesh = BuiltMesh(DefaultMeshWidth, DefaultMeshHeight)
  /\ \E results \in LoadOutcomes :
       shaders = LoadedShaders(has3DVisualizer, results)
  /\ matA = NewMatrix
  /\ matR = NoMatrixCall
  /\ frequencyBinCount = FrequencyBinCount(FALSE)
  /\ byteLength = frequencyBinCount
  /\ textureWidth = frequencyBinCount
  /\ textureId = 1
  /\ liveTextures = {1}
  /\ currentProgram = ProgramAfterLoads(shaders)
  /\ raised = "none"
  /\ isRendering = FALSE
  /\ pending = 0
  /\ rowKind = NoKinds
  /\ scene = NewScene
  /\ player = NewPlayer

\* startRender, lines 96-102: draw_ runs inside the call.
StartRender(data) ==
  IF isRendering
  THEN /\ op' = [name |-> "startRender", type |-> -1, yoffset |-> yoffset,
                 analysisType |-> analysisType]
       /\ raised' = "none"
       /\ UNCHANGED <<has3DVisualizer, analysisType, yoffset, freqByteData,
                      texture, glCalls, history, nwrites, run,
                      frequencyBinCount, byteLength, textureWidth, textureId,
                      liveTextures, currentProgram>>
       /\ UNCHANGED <<glInitVars, matVars, loopVars, sideVars>>
  ELSE /\ isRendering' = TRUE
       /\ Frame(data)
       /\ UNCHANGED sideVars
       /\ pending' = IF raised' = "none" THEN pending + 1 ELSE pending

\* stopRender, lines 92-94.
StopRender ==
  /\ isRendering' = FALSE
  /\ op' = [name |-> "stopRender", type |-> -1, yoffset |-> yoffset,
            analysisType |-> analysisType]
  /\ raised' = "none"
  /\ UNCHANGED <<has3DVisualizer, analysisType, yoffset, freqByteData, texture,
                 glCalls, history, nwrites, run, frequencyBinCount, byteLength,
                 textureWidth, textureId, liveTextures, currentProgram>>
  /\ UNCHANGED <<glInitVars, matVars, pending, sideVars>>

\* draw_, lines 153-161, run by the browser for one waiting callback:
\* requestAnimationFrame is reached only when doFrequencyAnalysis returns.
Tick(data) ==
  /\ pending > 0
  /\ IF ~isRendering
     THEN /\ pending' = pending - 1
          /\ op' = [name |-> "draw_", type |-> -1, yoffset |-> yoffset,
                    analysisType |-> analysisType]
          /\ raised' = "none"
          /\ UNCHANGED <<has3DVisualizer, analysisType, yoffset, freqByteData,
                         texture, glCalls, history, nwrites, run,
                         frequencyBinCount, byteLength, textureWidth,
                         textureId, liveTextures, currentProgram>>
          /\ UNCHANGED <<glInitVars, matVars, isRendering, sideVars>>
     ELSE /\ Frame(data)
          /\ pending' = IF raised' = "none" THEN pending ELSE pending - 1
          /\ UNCHANGED <<isRendering, sideVars>>

NextLoop ==
  \/ pending < MaxPending /\ StartRender(MaxSample)
  \/ StopRender
  \/ Tick(MaxSample)
  \/ \E type \in AnalysisTypes : SetAnalysisType(type)

SpecLoop == InitLoop /\ [][NextLoop]_vars


-----------------------------------------------------------------------------
\* The kind of data held by each row of the texture, frame after frame,
\* after init_ with every shader linked.

\* doFrequencyAnalysis with drawGL: the row written by texSubImage2D holds
\* what the analyser call of this frame put into freqByteData.
FrameWithKinds(data) ==
  /\ Frame(data)
  /\ rowKind' = IF frequencyBinCount = 0 \/ freqByteData = <<>>
                THEN rowKind
                ELSE [rowKind EXCEPT ![WriteRow(analysisType, yoffset)] =
                        SnapshotCallFor(analysisType)]
  /\ UNCHANGED <<loopVars, scene, player>>

InitKinds ==
  /\ InitLoop
  /\ shaders = LoadedShaders(has3DVisualizer, AllLinked)

NextKinds ==
  \/ \E type \in AnalysisTypes : SetAnalysisType(type)
  \/ FrameWithKinds(MaxSample)

SpecKinds == InitKinds /\ [][NextKinds]_vars

-----------------------------------------------------------------------------
\* The camera matrices frame after frame in Sonogram3D mode, after init_
\* with the 3D capability and every shader linked.

\* doFrequencyAnalysis with drawGL in Sonogram3D mode, for the camera and
\* the canvas size the frame finds. The matrices are composed after the
\* shader is bound.
Frame3D(data, cam, canvas) ==
  /\ analysisType = ANALYSISTYPE_3D_SONOGRAM
  /\ Frame(data)
  /\ scene' = IF \/ frequencyBinCount = 0
               \/ freqByteData = <<>>
               \/ BindRaises(shaders[ShaderFor(analysisType)])
              THEN scene
              ELSE ComposeScene(scene, cam, canvas)
  /\ UNCHANGED <<loopVars, rowKind, player>>

InitCamera ==
  /\ InitKinds
  /\ has3DVisualizer

NextCamera ==
  \E cam \in Cameras, canvas \in Canvases : Frame3D(MaxSample, cam, canvas)

SpecCamera == InitCamera /\ [][NextCamera]_vars

-----------------------------------------------------------------------------
\* The Player (player.js) after init_: playSrc, stop, setLoop and live are
\* called at any time, and track loads, play timers and microphone requests
\* complete at any time. A source node is named by the number of its
\* creation; every node is created looping (createSource_(buffer, true)), so
\* it plays until stop is called on it. The looping empty source started by
\* the constructor (lines 37-41) is not a track source and is left out.

\* Largest number of source nodes created in a run.
MaxSources == 3

\* The tracks of the sound buttons tried.
Srcs == {"a", "b"}

\* seq without its i-th element.
RemoveAt(seq, i) == SubSeq(seq, 1, i - 1) \o SubSeq(seq, i + 1, Len(seq))

\* stop(), lines 136-147.
StopOn(p) ==
  LET p1 == IF p.source # 0
            THEN [p EXCEPT !.playing = @ \ {p.source}, !.source = 0,
                           !.timers = @ \ {p.playTimer}, !.playTimer = 0]
            ELSE p
  IN IF p1.input THEN [p1 EXCEPT !.input = FALSE] ELSE p1

\* playHelper_(src), lines 72-82: a new source is created, kept in
\* this.source and started; without loop a timer is set that calls stop.
PlayHelperOn(p, src) ==
  LET id == p.created + 1
      p1 == [p EXCEPT !.source = id, !.playing = @ \cup {id}, !.created = id]
  IN IF ~p.loop
     THEN [p1 EXCEPT !.playTimer = id, !.timers = @ \cup {id}]
     ELSE p1

\* playSrc(src), lines 44-70: with a microphone input it disconnects the
\* input and returns; with the buffer loaded it plays; else it starts a load.
PlaySrcOn(p, src) ==
  IF p.input THEN [p EXCEPT !.input = FALSE]
  ELSE IF src \in p.buffers THEN PlayHelperOn(p, src)
  ELSE [p EXCEPT !.loading = Append(@, src)]

\* The callback of loadTrackSrc, lines 63-69, for the i-th load in flight.
LoadedOn(p, i) ==
  PlayHelperOn([p EXCEPT !.loading = RemoveAt(@, i),
                         !.buffers = @ \cup {p.loading[i]}],
               p.loading[i])

\* live(), lines 84-107, off iOS.
LiveOn(p) ==
  IF p.input THEN [p EXCEPT !.input = FALSE]
  ELSE [p EXCEPT !.streams = @ + 1]

\* onStream_, lines 109-114.
StreamOn(p) == [p EXCEPT !.streams = @ - 1, !.input = TRUE]

PlaySrc(src) ==
  /\ player.created + Len(player.loading) < MaxSources
  /\ player' = [PlaySrcOn(player, src) EXCEPT !.stopped = FALSE]
  /\ UNCHANGED <<viewVars, glInitVars, matVars, loopVars, rowKind, scene>>

Stop ==
  /\ player' = [StopOn(player) EXCEPT !.stopped = TRUE]
  /\ UNCHANGED <<viewVars, glInitVars, matVars, loopVars, rowKind, scene>>

SetLoop(loop) ==
  /\ player' = [player EXCEPT !.loop = loop]
  /\ UNCHANGED <<viewVars, glInitVars, matVars, loopVars, rowKind, scene>>

\* A track load ends: decodeAudioData calls the callback of playSrc.
LoadComplete(i) ==
  /\ i \in DOMAIN player.loading
  /\ player' = LoadedOn(player, i)
  /\ UNCHANGED <<viewVars, glInitVars, matVars, loopVars, rowKind, scene>>

\* A play timer set by playHelper_ fires and calls stop (lines 78-80).
TimerFires(t) ==
  /\ t \in player.timers
  /\ player' = [StopOn([player EXCEPT !.timers = @ \ {t}])
                 EXCEPT !.stopped = TRUE]
  /\ UNCHANGED <<viewVars, glInitVars, matVars, loopVars, rowKind, scene>>

Live ==
  /\ player.streams = 0
  /\ player' = LiveOn(player)
  /\ UNCHANGED <<viewVars, glInitVars, matVars, loopVars, rowKind, scene>>

\* getUserMedia succeeds.
OnStream ==
  /\ player.streams > 0
  /\ player' = StreamOn(player)
  /\ UNCHANGED <<viewVars, glInitVars, matVars, loopVars, rowKind, scene>>

InitPlayer == InitKinds

NextPlayer ==
  \/ \E src \in Srcs : PlaySrc(src)
  \/ Stop
  \/ \E loop \in BOOLEAN : SetLoop(loop)
  \/ \E i \in 1..MaxSources : LoadComplete(i)
  \/ \E t \in 1..MaxSources : TimerFires(t)
  \/ Live
  \/ OnStream

SpecPlayer == InitPlayer /\ [][NextPlayer]_vars

-----------------------------------------------------------------------------
\* Properties

IsFrame == op.name = "frame"
AccumulatingFrame == IsFrame /\ IsAccumulating(op.type)
InstantaneousFrame == IsFrame /\ ~IsAccumulating(op.type)

\* The content of freqByteData, the snapshot of the most recent frame.
Snapshot == freqByteData[1]

\* k-th most recent entry of history (k = 0 is the most recent).
Ago(k) == history[Len(history) - k]

\* The texture row a normalized offset f = n / (TEXTURE_HEIGHT - 1) designates.
RowDesignated(f) == (f[1] * (TEXTURE_HEIGHT - 1)) \div f[2]

Distinct(s) == \A i, j \in 1..Len(s) : i # j => s[i] # s[j]

\* C1: without the 3D capability the active mode is never Sonogram3D, after
\* initialization and after any sequence of setAnalysisType calls and frames.
C1_Never3DWithoutCapability ==
  ~has3DVisualizer => analysisType # ANALYSISTYPE_3D_SONOGRAM

\* C1 witness: without the capability, Sonogram3D was just requested after a
\* frame had been rendered.
C1_Witness ==
  /\ ~has3DVisualizer
  /\ op.name = "setAnalysisType"
  /\ op.type = ANALYSISTYPE_3D_SONOGRAM
  /\ glCalls.draw # "none"

C3_InitialMode ==
  op.name = "constructor" =>
    analysisType =
      IF has3DVisualizer THEN ANALYSISTYPE_3D_SONOGRAM ELSE ANALYSISTYPE_FREQUENCY

\* C3 witness: a freshly constructed view without the capability.
C3_Witness == op.name = "constructor" /\ ~has3DVisualizer

\* C4: a frame in Sonogram or Sonogram3D mode writes the snapshot into the
\* row the cursor had before the frame and leaves the cursor at
\* (old cursor + 1) mod TEXTURE_HEIGHT.
C4_AccumulatingWrite ==
  AccumulatingFrame =>
    /\ glCalls.texRow = op.yoffset
    /\ glCalls.texData = Snapshot
    /\ texture[op.yoffset] = Snapshot
    /\ yoffset = (op.yoffset + 1) % TEXTURE_HEIGHT

\* C4 witness: an accumulating frame wrote a non-zero snapshot into the last
\* row, so the cursor wrapped.
C4_Witness ==
  /\ AccumulatingFrame
  /\ op.yoffset = TEXTURE_HEIGHT - 1
  /\ Snapshot # 0

\* C5: a frame in Frequency or Waveform mode writes the snapshot into row 0
\* and leaves the cursor at 0, whatever the cursor was.
C5_InstantaneousWrite ==
  InstantaneousFrame =>
    /\ glCalls.texRow = 0
    /\ glCalls.texData = Snapshot
    /\ texture[0] = Snapshot
    /\ yoffset = 0

\* C5 witness: an instantaneous frame started with a non-zero cursor.
C5_Witness == InstantaneousFrame /\ op.yoffset # 0 /\ Snapshot # 0

\* C6 as claimed: after 1..TEXTURE_HEIGHT accumulating writes since the last
\* reset, row (cursor - k) mod TEXTURE_HEIGHT holds the snapshot written k
\* writes ago, so row cursor holds the most recent one.
C6_Original ==
  nwrites \in 1..TEXTURE_HEIGHT =>
    \A k \in 0..(nwrites - 1) :
      texture[(yoffset - k + TEXTURE_HEIGHT) % TEXTURE_HEIGHT] = Ago(k)

\* C6 amended: after 1..TEXTURE_HEIGHT accumulating writes since the last
\* reset, row (cursor - 1 - k) mod TEXTURE_HEIGHT holds the snapshot written
\* k writes ago: the most recent snapshot is in the row before the cursor.
C6_RowsBehindCursor ==
  nwrites \in 1..TEXTURE_HEIGHT =>
    \A k \in 0..(nwrites - 1) :
      texture[(yoffset - 1 - k + 2 * TEXTURE_HEIGHT) % TEXTURE_HEIGHT] = Ago(k)

\* C6 witness: TEXTURE_HEIGHT accumulating writes of pairwise distinct
\* snapshots since the last reset.
C6_Witness ==
  /\ nwrites = TEXTURE_HEIGHT
  /\ Len(history) = TEXTURE_HEIGHT
  /\ Distinct(history)

\* C7: TEXTURE_HEIGHT consecutive accumulating frames without a mode change
\* leave the cursor where it was before the first of them.
C7_CursorWraps == Len(run) = TEXTURE_HEIGHT => yoffset = run[1]

\* C7 witness: such a run of frames that started at a non-zero cursor.
C7_Witness == Len(run) = TEXTURE_HEIGHT /\ run[1] # 0 /\ AccumulatingFrame

\* C8: TEXTURE_HEIGHT + 1 accumulating writes of distinct snapshots
\* S0..SH from cursor 0 leave SH in row 0 (S0 is gone), Si in every row
\* i in 1..TEXTURE_HEIGHT-1, and a normalized offset of 1/(TEXTURE_HEIGHT-1).
C8_OldestRowOverwritten ==
  (nwrites = TEXTURE_HEIGHT + 1 /\ Distinct(history)) =>
    /\ texture[0] = history[TEXTURE_HEIGHT + 1]
    /\ texture[0] # history[1]
    /\ \A i \in 1..(TEXTURE_HEIGHT - 1) : texture[i] = history[i + 1]
    /\ FracEq(NormalizedYOffset(yoffset), <<1, TEXTURE_HEIGHT - 1>>)
    /\ FracEq(glCalls.yoffsetUniform, <<1, TEXTURE_HEIGHT - 1>>)

\* C8 witness: the write after a full turn has just happened, with
\* TEXTURE_HEIGHT + 1 distinct snapshots.
C8_Witness ==
  /\ nwrites = TEXTURE_HEIGHT + 1
  /\ Len(history) = TEXTURE_HEIGHT + 1
  /\ Distinct(history)
  /\ AccumulatingFrame

C10_Original ==
  AccumulatingFrame =>
    /\ FracEq(glCalls.yoffsetUniform, NormalizedYOffset(yoffset))
    /\ FracLeq(<<0, 1>>, glCalls.yoffsetUniform)
    /\ FracLeq(glCalls.yoffsetUniform, <<1, 1>>)
    /\ texture[RowDesignated(glCalls.yoffsetUniform)] = Snapshot

\* C10 amended: a frame in Sonogram or Sonogram3D mode hands the shader
\* yoffset = cursor/(TEXTURE_HEIGHT-1), in [0, 1]; the row it designates is
\* the one after (mod TEXTURE_HEIGHT) the row written in that frame, so the
\* snapshot of the frame is in the row before the designated one.
C10_OffsetPointsPastNewestRow ==
  AccumulatingFrame =>
    LET d == RowDesignated(glCalls.yoffsetUniform) IN
    /\ FracEq(glCalls.yoffsetUniform, NormalizedYOffset(yoffset))
    /\ FracLeq(<<0, 1>>, glCalls.yoffsetUniform)
    /\ FracLeq(glCalls.yoffsetUniform, <<1, 1>>)
    /\ d = (glCalls.texRow + 1) % TEXTURE_HEIGHT
    /\ texture[(d - 1 + TEXTURE_HEIGHT) % TEXTURE_HEIGHT] = Snapshot

\* C10 witness: a Sonogram3D frame whose snapshot differs from the content
\* of the row the offset designates.
C10_Witness ==
  /\ AccumulatingFrame
  /\ op.type = ANALYSISTYPE_3D_SONOGRAM
  /\ glCalls.draw = "drawElements"
  /\ texture[RowDesignated(glCalls.yoffsetUniform)] # Snapshot

\* C19: the write cursor is an integer in [0, TEXTURE_HEIGHT) in every
\* reachable state.
C19_CursorInRange == yoffset \in Rows

\* C19 witness: the cursor is on the last row after accumulating frames and
\* a mode request.
C19_Witness ==
  /\ yoffset = TEXTURE_HEIGHT - 1
  /\ op.name = "setAnalysisType"
  /\ nwrites > 0

\* A frame for which the analyser delivered no new snapshot: freqByteData
\* holds after the step what it held before.
RepeatedSnapshotFrame == op'.name = "frame" /\ freqByteData' = freqByteData

\* C20 as claimed: a frame without a new snapshot leaves the ring buffer
\* unchanged and does not advance the cursor.
C20_Original ==
  [][RepeatedSnapshotFrame => (texture' = texture /\ yoffset' = yoffset)]_vars

\* C20 amended: a frame without a new snapshot is rendered like any other:
\* the repeated snapshot is written into the row at the cursor (row 0 in the
\* instantaneous modes), every other row is unchanged, the cursor advances
\* by one mod TEXTURE_HEIGHT in the accumulating modes, and the draw call is
\* issued.
C20_RepeatedSnapshotStillWritten ==
  [][RepeatedSnapshotFrame =>
       LET acc == IsAccumulating(analysisType)
           row == IF acc THEN yoffset ELSE 0
       IN
       /\ texture'[row] = freqByteData[1]
       /\ \A r \in Rows \ {row} : texture'[r] = texture[r]
       /\ yoffset' = IF acc THEN (yoffset + 1) % TEXTURE_HEIGHT ELSE 0
       /\ glCalls'.draw # "none"]_vars

\* C20 witness: two consecutive accumulating frames delivered the same
\* non-zero snapshot.
C20_Witness ==
  /\ AccumulatingFrame
  /\ nwrites >= 2
  /\ Ago(0) = Ago(1)
  /\ Snapshot # 0

-----------------------------------------------------------------------------
\* Properties of initGL, under SpecGL.

Sonogram3DBuffers == {"sonogram3DVBO", "sonogram3DIBO"}

\* C13: building the mesh with more than VERTEX_LIMIT vertices throws out of
\* initGL before any 3D vertex or index buffer is created; building with at
\* most VERTEX_LIMIT vertices, exactly VERTEX_LIMIT included, succeeds.
C13_VertexCeiling ==
  mesh.status # "new" =>
    IF mesh.width * mesh.height > VERTEX_LIMIT
    THEN mesh.status = "thrown" /\ mesh.buffers \cap Sonogram3DBuffers = {}
    ELSE mesh.status = "built" /\ Sonogram3DBuffers \subseteq mesh.buffers

C13_Witness ==
  /\ mesh.status = "built"
  /\ mesh.width * mesh.height = VERTEX_LIMIT
  /\ mesh.width > 1 /\ mesh.height > 1

\* C14: for every built mesh of at least 2 by 2 vertices the index buffer
\* holds (W-1)*(H-1)*2 triangles: cell (i, j), in row-major cell order, holds
\* (j*W+i, j*W+i+1, (j+1)*W+i+1) and (j*W+i, (j+1)*W+i+1, (j+1)*W+i), and
\* every stored index is in [0, W*H).
C14_IndexBuffer ==
  (mesh.status = "built" /\ mesh.width >= 2 /\ mesh.height >= 2) =>
    LET W == mesh.width
        H == mesh.height
    IN /\ Len(mesh.indices) = (W - 1) * (H - 1) * 2 * 3
       /\ \A i \in 0..(W - 2), j \in 0..(H - 2) :
            LET first == 6 * (j * (W - 1) + i) IN
            /\ mesh.indices[first + 1] = j * W + i
            /\ mesh.indices[first + 2] = j * W + i + 1
            /\ mesh.indices[first + 3] = (j + 1) * W + i + 1
            /\ mesh.indices[first + 4] = j * W + i
            /\ mesh.indices[first + 5] = (j + 1) * W + i + 1
            /\ mesh.indices[first + 6] = (j + 1) * W + i
       /\ \A k \in 1..Len(mesh.indices) :
            mesh.indices[k] >= 0 /\ mesh.indices[k] < W * H

C14_Witness ==
  /\ mesh.status = "built"
  /\ mesh.width = 3 /\ mesh.height = 5
  /\ Len(mesh.indices) = 48
  /\ mesh.indices[48] = 13

-----------------------------------------------------------------------------
\* Properties of Matrix4x4, under SpecMatrix.

IsIdentity(e) ==
  \A row \in 0..3, col \in 0..3 :
    e[row * 4 + col + 1] = IF row = col THEN 1 ELSE 0

\* C15: a freshly constructed matrix, and any matrix right after
\* loadIdentity whatever it held before, has element row*4+col equal to 1
\* when row = col and to 0 otherwise, for all sixteen elements.
C15_IdentityAfterReset ==
  matR.op \in {"new", "loadIdentity"} => IsIdentity(matA)

C15_Witness ==
  /\ matR.op = "loadIdentity"
  /\ \A i \in ElementIndexes : matR.before[i] # 0
  /\ IsIdentity(matA)

\* C16: for every input matrix M (determinant 1 or -1),
\* M.inverse().multiply(M) is the identity and M is unchanged by inverse().
C16_InverseTimesMatrix ==
  matR.op = "inverse" =>
    /\ IsIdentity(matR.product)
    /\ matA = matR.before

C16_Witness ==
  /\ matR.op = "inverse"
  /\ \A i \in ElementIndexes : matR.before[i] # 0
  /\ matR.result # matR.before
  /\ IsIdentity(matR.product)

-----------------------------------------------------------------------------
\* Properties of the allocation, under SpecAlloc.

\* C11: initByteBuffer called while the analyser's bin count equals the
\* snapshot length changes nothing: no texture is created or deleted, and the
\* snapshot, the texture and the cursor stay as they are. It allocates only
\* when there is no snapshot or the bin count differs; the previous texture
\* is then deleted, exactly one texture is live, it is zero-filled and as wide
\* as the bin count.
C11_EnsureCapacityIdempotent ==
  [][(op'.name = "initByteBuffer" /\ frequencyBinCount # 0) =>
       IF freqByteData # <<>> /\ byteLength = frequencyBinCount
       THEN UNCHANGED <<freqByteData, byteLength, texture, textureWidth,
                        textureId, liveTextures, yoffset>>
       ELSE /\ textureId' \notin liveTextures
            /\ liveTextures' = {textureId'}
            /\ Cardinality(liveTextures') = 1
            /\ byteLength' = frequencyBinCount
            /\ textureWidth' = frequencyBinCount
            /\ \A r \in Rows : texture'[r] = 0
            /\ yoffset' = yoffset]_vars

C11_Witness ==
  /\ op.name = "initByteBuffer"
  /\ textureId = 2
  /\ liveTextures = {2}
  /\ yoffset > 0
  /\ \A r \in Rows : texture[r] = 0
  /\ byteLength = frequencyBinCount

\* C12: a frame never writes into the texture a snapshot whose length differs
\* from the allocated texture width or from the analyser's current bin count
\* (after a change of bin count the frame reallocates or raises instead).
C12_Original ==
  (op.name = "frame" /\ glCalls.texRow # -1) =>
    /\ glCalls.width = textureWidth
    /\ glCalls.width = frequencyBinCount

-----------------------------------------------------------------------------
\* Properties of the render loop, under SpecLoop.

\* C17: a frame in a mode whose shader did not load, compile or link issues
\* no draw call, leaves the current program as it was and raises nothing.
C17_Original ==
  [][(op'.name = "frame" /\ shaders[ShaderFor(analysisType)] # "linked") =>
       /\ glCalls'.draw = "none"
       /\ currentProgram' = currentProgram
       /\ raised' = "none"]_vars

\* C18: while rendering is enabled, a frame that raises leaves a draw_
\* callback scheduled.
C18_Original ==
  (isRendering /\ op.name = "frame" /\ raised # "none") => pending > 0

-----------------------------------------------------------------------------
\* Properties of the draw count, under SpecGL.

\* C28: for every built mesh of at least 2 by 2 vertices the index count kept
\* for the indexed draw call is non-negative, not greater than the number of
\* indices in the index buffer, and equal to (W-1)*(H-1)*6.
C28_Original ==
  (mesh.status = "built" /\ mesh.width >= 2 /\ mesh.height >= 2) =>
    /\ mesh.sonogram3DNumIndices >= 0
    /\ mesh.sonogram3DNumIndices <= Len(mesh.indices)
    /\ mesh.sonogram3DNumIndices = (mesh.width - 1) * (mesh.height - 1) * 6

-----------------------------------------------------------------------------
\* Properties of the scheduling, under SpecLoop.

\* C27: at most one draw_ callback is waiting at any time, for every
\* interleaving of startRender, stopRender and ticks.
C27_Original == pending <= 1

-----------------------------------------------------------------------------
\* Properties of multiply, under SpecMultiply.

\* The matrix product a x b, element by element.
MatrixProduct(a, b) ==
  [k \in ElementIndexes |->
     LET row == (k - 1) \div 4
         col == (k - 1) % 4
     IN a[row * 4 + 1] * b[col + 1] + a[row * 4 + 2] * b[4 + col + 1]
        + a[row * 4 + 3] * b[8 + col + 1] + a[row * 4 + 4] * b[12 + col + 1]]

\* C25: a.multiply(b) sets a to a x b and leaves another instance b as it
\* was; a.multiply(a) sets a to a x a computed from the elements a held
\* before the call, the same as a.multiply(a.copy()).
C25_MultiplyInPlace ==
  /\ matR.op = "multiply" =>
       /\ matA = MatrixProduct(matR.before, matR.product)
       /\ matR.result = matR.product
  /\ matR.op = "multiplySelf" =>
       /\ matA = MatrixProduct(matR.before, matR.before)
       /\ matA = matR.result

C25_Witness ==
  /\ matR.op = "multiplySelf"
  /\ \A i \in ElementIndexes : matR.before[i] # 0
  /\ matA # matR.before
  /\ matA = MatrixProduct(matR.before, matR.before)


-----------------------------------------------------------------------------
\* C22: in every frame the vertex buffer, the shader and the draw call match
\* the mode the frame ran in: the three flat modes bind their own shader
\* with the quad buffer and draw 6 vertices without indices, Sonogram3D binds
\* the 3D shader with the heightfield buffer and draws with indices; the
\* indexed draw is made exactly in Sonogram3D, and a frame makes exactly one
\* draw call.

DrawCalls == {"drawArrays", "drawElements"}

\* The positions in the call sequence s of the calls named in names.
Positions(s, names) == {i \in DOMAIN s : s[i] \in names}

C22_DrawMatchesMode ==
  IsFrame =>
    /\ op.type = ANALYSISTYPE_FREQUENCY => glCalls.shader = "frequencyShader"
    /\ op.type = ANALYSISTYPE_WAVEFORM => glCalls.shader = "waveformShader"
    /\ op.type = ANALYSISTYPE_SONOGRAM => glCalls.shader = "sonogramShader"
    /\ op.type # ANALYSISTYPE_3D_SONOGRAM =>
         /\ glCalls.vertexBuffer = "vbo"
         /\ glCalls.draw = "drawArrays"
         /\ glCalls.count = 6
    /\ op.type = ANALYSISTYPE_3D_SONOGRAM =>
         /\ glCalls.shader = "sonogram3DShader"
         /\ glCalls.vertexBuffer = "sonogram3DVBO"
         /\ glCalls.draw = "drawElements"
    /\ glCalls.draw = "drawElements" <=> op.type = ANALYSISTYPE_3D_SONOGRAM
    /\ Cardinality(Positions(glCalls.events, DrawCalls)) = 1

C22_Witness ==
  /\ IsFrame
  /\ op.type = ANALYSISTYPE_3D_SONOGRAM
  /\ glCalls.draw = "drawElements"
  /\ "drawElements" \in {glCalls.events[i] : i \in DOMAIN glCalls.events}

-----------------------------------------------------------------------------
\* C23: within every frame the snapshot is read from the analyser first,
\* then exactly one row is written into the texture, then the draw call is
\* made; the draw never comes before the write of its own frame.

SnapshotCalls == {"getByteFrequencyData", "getByteTimeDomainData"}

C23_SnapshotWriteDraw ==
  IsFrame =>
    LET reads == Positions(glCalls.events, SnapshotCalls)
        writes == Positions(glCalls.events, {"texSubImage2D"})
        draws == Positions(glCalls.events, DrawCalls)
    IN /\ Cardinality(reads) = 1
       /\ Cardinality(writes) = 1
       /\ draws # {}
       /\ \A r \in reads : \A w \in writes : r < w
       /\ \A w \in writes : \A d \in draws : w < d
       /\ glCalls.texData = Snapshot
       /\ texture[glCalls.texRow] = Snapshot

C23_Witness ==
  /\ IsFrame
  /\ op.type = ANALYSISTYPE_WAVEFORM
  /\ glCalls.events[1] = "getByteTimeDomainData"
  /\ glCalls.events[Len(glCalls.events)] = "drawArrays"
  /\ Snapshot # 0
  /\ glCalls.texData = Snapshot

-----------------------------------------------------------------------------
\* C26: in every Sonogram3D frame the vertex-sampling offset handed to the
\* shader is floor(n * (Hm - 1)) / (Hm - 1), with n the normalized offset
\* cursor / (H - 1) of the same frame and Hm the mesh height; it is never
\* greater than n, for the mesh in use and for every mesh height from 2 to
\* MaxDim, and with Hm = H it equals cursor / (H - 1).

C26_DiscretizedOffset ==
  (IsFrame /\ op.type = ANALYSISTYPE_3D_SONOGRAM) =>
    LET n == <<yoffset, TEXTURE_HEIGHT - 1>>
        v == glCalls.vertexYOffset
    IN /\ FracEq(glCalls.yoffsetUniform, n)
       /\ v[2] = mesh.height - 1
       /\ v[1] <= (n[1] * (mesh.height - 1)) \div n[2]
       /\ (n[1] * (mesh.height - 1)) \div n[2] <= v[1]
       /\ v[1] * n[2] <= n[1] * (mesh.height - 1)
       /\ n[1] * (mesh.height - 1) < (v[1] + 1) * n[2]
       /\ FracLeq(v, n)
       /\ mesh.height = TEXTURE_HEIGHT => FracEq(v, n)
       /\ \A meshHeight \in 2..MaxDim :
            LET d == DiscretizedYOffset(yoffset, meshHeight)
            IN /\ d[2] = meshHeight - 1
               /\ d[1] * n[2] <= n[1] * (meshHeight - 1)
               /\ n[1] * (meshHeight - 1) < (d[1] + 1) * n[2]
               /\ FracLeq(d, n)
               /\ meshHeight = TEXTURE_HEIGHT => FracEq(d, n)

C26_Witness ==
  /\ IsFrame
  /\ op.type = ANALYSISTYPE_3D_SONOGRAM
  /\ yoffset = TEXTURE_HEIGHT - 1
  /\ mesh.height = TEXTURE_HEIGHT
  /\ glCalls.vertexYOffset = <<TEXTURE_HEIGHT - 1, TEXTURE_HEIGHT - 1>>
  /\ DiscretizedYOffset(1, MaxDim)[1] * (TEXTURE_HEIGHT - 1) < MaxDim - 1
-----------------------------------------------------------------------------
\* C29: a frame writes one row of the texture, the row at its write cursor,
\* which then holds the new snapshot; every other row, the texture (its
\* identity, width and number of rows), the snapshot length and the mesh
\* buffers are as before the frame. setAnalysisType leaves the cursor, the
\* texture, the snapshot buffer and everything but the mode as they were.

C29_FrameEffect ==
  /\ op'.name = "frame" =>
       /\ glCalls'.texRow \in Rows
       /\ \A r \in Rows \ {glCalls'.texRow} : texture'[r] = texture[r]
       /\ texture'[glCalls'.texRow] = freqByteData'[1]
       /\ DOMAIN texture' = DOMAIN texture
       /\ Cardinality({r \in Rows : texture'[r] # texture[r]}) <= 1
       /\ UNCHANGED <<textureWidth, textureId, liveTextures, byteLength, mesh>>
  /\ op'.name = "setAnalysisType" =>
       UNCHANGED <<yoffset, texture, freqByteData, byteLength, textureWidth,
                   textureId, liveTextures, glCalls, mesh, shaders,
                   has3DVisualizer, frequencyBinCount, currentProgram>>

C29_FrameChangesOneRow == [][C29_FrameEffect]_vars

C29_Witness ==
  /\ IsFrame
  /\ op.type = ANALYSISTYPE_SONOGRAM
  /\ glCalls.texRow = 1
  /\ texture[1] = MaxSample
  /\ texture[0] # MaxSample
  /\ texture[0] # 0
  /\ texture[TEXTURE_HEIGHT - 1] = 0
-----------------------------------------------------------------------------
\* C21: the rows of the texture written so far never hold frequency
\* snapshots (from getByteFrequencyData) and time-domain snapshots (from
\* getByteTimeDomainData) at the same time.

C21_Original ==
  ~ \E r1, r2 \in Rows :
      /\ rowKind[r1] = "getByteFrequencyData"
      /\ rowKind[r2] = "getByteTimeDomainData"
-----------------------------------------------------------------------------
\* C24: after every Sonogram3D frame, whatever the frames before it left in
\* the matrices, model is translation x roll about Z x yaw about Y x pitch
\* about X (each call multiplies on the left of what the calls before it
\* built from the identity), view is the translation by (0, 0, -9),
\* projection is what perspective gives from the identity for the canvas of
\* this frame, and the matrix handed to the shader is model x view x
\* projection: it depends on the camera and the canvas of the frame only.

IdentityElements ==
  [k \in ElementIndexes |-> IF (k - 1) \div 4 = (k - 1) % 4 THEN 1 ELSE 0]

RotationX(angle) ==
  <<1, 0, 0, 0,
    0, CosDeg(angle), -SinDeg(angle), 0,
    0, SinDeg(angle), CosDeg(angle), 0,
    0, 0, 0, 1>>

RotationY(angle) ==
  <<CosDeg(angle), 0, SinDeg(angle), 0,
    0, 1, 0, 0,
    -SinDeg(angle), 0, CosDeg(angle), 0,
    0, 0, 0, 1>>

RotationZ(angle) ==
  <<CosDeg(angle), -SinDeg(angle), 0, 0,
    SinDeg(angle), CosDeg(angle), 0, 0,
    0, 0, 1, 0,
    0, 0, 0, 1>>

Translation(tx, ty, tz) ==
  <<1, 0, 0, 0,
    0, 1, 0, 0,
    0, 0, 1, 0,
    tx, ty, tz, 1>>

SameElements(a, b) == \A k \in ElementIndexes : a[k] = b[k]

ModelOf(cam) ==
  MatrixProduct(Translation(cam.xT, cam.yT, cam.zT),
    MatrixProduct(RotationZ(cam.zRot),
      MatrixProduct(RotationY(cam.yRot), RotationX(cam.xRot))))

C24_FreshComposition ==
  (IsFrame /\ op.type = ANALYSISTYPE_3D_SONOGRAM) =>
    /\ SameElements(scene.model, ModelOf(scene.camera))
    /\ SameElements(scene.view, Translation(0, 0, -9))
    /\ SameElements(scene.projection,
                    Perspective(IdentityElements, Fovy, scene.canvas,
                                NearZ, FarZ))
    /\ SameElements(scene.mvp,
                    MatrixProduct(MatrixProduct(scene.model, scene.view),
                                  scene.projection))
    /\ SameElements(scene.mvp,
                    MatrixProduct(
                      MatrixProduct(ModelOf(scene.camera),
                                    Translation(0, 0, -9)),
                      Perspective(IdentityElements, Fovy, scene.canvas,
                                  NearZ, FarZ)))

C24_Witness ==
  /\ IsFrame
  /\ op.type = ANALYSISTYPE_3D_SONOGRAM
  /\ nwrites >= 2
  /\ scene.camera = InitialCamera
  /\ scene.canvas = <<1, 2>>
  /\ ~ SameElements(scene.projection, IdentityElements)
  /\ ~ SameElements(scene.model,
         MatrixProduct(RotationX(scene.camera.xRot),
           MatrixProduct(RotationY(scene.camera.yRot),
             MatrixProduct(RotationZ(scene.camera.zRot),
               Translation(scene.camera.xT, scene.camera.yT,
                           scene.camera.zT)))))
  /\ ~ SameElements(scene.mvp,
         MatrixProduct(scene.projection,
                       MatrixProduct(scene.view, scene.model)))
-----------------------------------------------------------------------------
\* C30: once stop has returned and until playSrc is called again no track
\* source is playing, and at no time is more than one track source playing,
\* whatever the order of playSrc, stop and the completions of track loads.

C30_Original ==
  /\ player.stopped => player.playing = {}
  /\ Cardinality(player.playing) <= 1
====
